---- MODULE Spec2Model ----
(***************************************************************************)
(* Model of the coordinate calculator (src/unnamed/part_000, the           *)
(* CoordinateCalculator module): validation, the spherical forward and     *)
(* inverse solutions and calculateTarget, which assembles them.            *)
(*                                                                         *)
(* A JavaScript number is modelled as a binary floating-point value        *)
(* <<m, e>> standing for m * 2^e, with a significand m of PrecBits bits    *)
(* (an IEEE-754 double has 53), plus NaN, PosInf and NegInf. Every         *)
(* arithmetic operation is computed exactly and then rounded to the        *)
(* nearest representable value, ties to even, as IEEE-754 does. The Math   *)
(* functions are evaluated in that arithmetic by argument reduction and    *)
(* series. The model therefore has fewer digits than the program, and the  *)
(* same behaviour: relative rounding error in every step, cancellation,    *)
(* sin and cos of a rounded multiple of pi/2 that are small but not zero,  *)
(* an asin argument that rounding can push past 1, NaN propagation and     *)
(* comparisons with NaN that are false. Signed zero is not modelled.       *)
(***************************************************************************)
EXTENDS Integers, Sequences, FiniteSets, TLC

VARIABLES pc, fn, input, ret, invoked, page

vars == <<pc, fn, input, ret, invoked, page>>

(***************************************************************************)
(* Numbers.                                                                *)
(***************************************************************************)

\* Number of significand bits of a modelled number.
PrecBits == 26

TwoP == 2 ^ PrecBits
HalfTwoP == 2 ^ (PrecBits - 1)

NaN == <<0, 9999>>
PosInf == <<1, 9999>>
NegInf == <<-1, 9999>>
Zero == <<0, 0>>

\* isNaN(x)
IsNaN(x) == x = NaN
IsInf(x) == x = PosInf \/ x = NegInf
IsZero(x) == x = Zero

Abs(n) == IF n < 0 THEN -n ELSE n
Sgn(n) == IF n < 0 THEN -1 ELSE 1

RECURSIVE BitLenRec(_)
BitLenRec(n) == IF n = 0 THEN 0 ELSE 1 + BitLenRec(n \div 2)

\* Number of bits of the natural number n.
BitLen(n) ==
  IF n >= 2 * TwoP THEN BitLenRec(n)
  ELSE IF n >= TwoP THEN PrecBits + 1
  ELSE IF n >= HalfTwoP THEN PrecBits
  ELSE IF n >= HalfTwoP \div 2 THEN PrecBits - 1
  ELSE BitLenRec(n)

\* s * q * 2^e, or s * (q + 1) * 2^e if up, for q of PrecBits bits.
RoundUp(s, q, up, e) ==
  IF ~up THEN <<s * q, e>>
  ELSE IF q + 1 = TwoP THEN <<s * HalfTwoP, e + 1>>
  ELSE <<s * (q + 1), e>>

\* s * (q + r / w) * 2^e rounded to the nearest number, ties to even, for q
\* of PrecBits bits and 0 <= r < w.
RoundQR(s, q, r, w, e) ==
  RoundUp(s, q, 2 * r > w \/ (2 * r = w /\ q % 2 = 1), e)

\* RoundHL for hi of PrecBits - k bits, k >= 0.
RoundShift(s, hi, lo, w, e, k) ==
  IF lo = 0 THEN <<s * hi * (2 ^ k), e - k>>
  ELSE IF k = 0 THEN RoundQR(s, hi, lo, w, e)
  ELSE RoundQR(s, hi * (2 ^ k) + lo \div (w \div (2 ^ k)),
               lo % (w \div (2 ^ k)), w \div (2 ^ k), e - k)

\* s * (hi + lo / w) * 2^e rounded to the nearest number, ties to even;
\* s is 1 or -1, 0 <= lo < w, hi has at most PrecBits + 1 bits, and w is a
\* power of two wherever hi has fewer than PrecBits bits and lo > 0.
RoundHL(s, hi, lo, w, e) ==
  IF hi = 0 /\ lo = 0 THEN Zero
  ELSE IF BitLen(hi) = PrecBits + 1
    THEN RoundUp(s, hi \div 2,
                 (hi % 2 = 1) /\ (lo > 0 \/ (hi \div 2) % 2 = 1), e + 1)
  ELSE RoundShift(s, hi, lo, w, e, PrecBits - BitLen(hi))

\* The quotient bits of r / d: n more bits appended to acc, two at a time,
\* and the remainder; r < d.
RECURSIVE DivBits(_, _, _, _)
DivBits(r, d, n, acc) ==
  IF n = 0 THEN <<acc, r>>
  ELSE IF n = 1 THEN <<2 * acc + (2 * r) \div d, (2 * r) % d>>
  ELSE DivBits((4 * r) % d, d, n - 2, 4 * acc + (4 * r) \div d)

\* r / d, 0 < r < d, scaled up by the power of two that brings it into
\* [1/2, 1): the scaled numerator and the (negative) exponent, from k.
RECURSIVE LeadShift(_, _, _)
LeadShift(r, d, k) ==
  IF 2 * r >= d THEN <<r, k>> ELSE LeadShift(2 * r, d, k - 1)

\* s * (q + r / d) * 2^e rounded, for qr = <<q, r>>; r enters as a sticky
\* bit, q having PrecBits + 1 bits.
FracRound(s, qr, e) == RoundHL(s, qr[1], IF qr[2] = 0 THEN 0 ELSE 1, 2, e)

\* s * (ip + r / d) scaled by 2^e and rounded, from the shifted remainder
\* sh = <<r, e>> and the number of quotient bits still needed.
FracBits(s, ip, sh, d, need) ==
  FracRound(s, DivBits(sh[1], d, need, ip), sh[2] - need)

\* s * (ip + r0 / d) rounded, 0 <= r0 < d.
FracParts(s, ip, r0, d) ==
  FracBits(s, ip,
           IF ip = 0 /\ r0 > 0 THEN LeadShift(r0, d, 0) ELSE <<r0, 0>>,
           d, PrecBits + 1 - BitLen(ip))

\* The number literal n / d, for integers n and d > 0.
Frac(n, d) ==
  IF n = 0 THEN Zero ELSE FracParts(Sgn(n), Abs(n) \div d, Abs(n) % d, d)

\* The number literal k, an integer.
Num(k) == RoundHL(Sgn(k), Abs(k), 0, 1, 0)

\* a * 2^k
Scale(a, k) ==
  IF IsNaN(a) \/ IsInf(a) \/ IsZero(a) THEN a ELSE <<a[1], a[2] + k>>

\* -a
Neg(a) == IF IsNaN(a) THEN NaN ELSE <<-a[1], a[2]>>

\* Math.abs(a)
MathAbs(a) == IF IsNaN(a) THEN NaN ELSE <<Abs(a[1]), a[2]>>

\* Comparison of the magnitudes of two finite numbers: -1, 0 or 1.
CmpMag(a, b) ==
  IF a[1] = 0 \/ b[1] = 0
    THEN (IF a[1] = 0 THEN 0 ELSE 1) - (IF b[1] = 0 THEN 0 ELSE 1)
  ELSE IF a[2] # b[2] THEN (IF a[2] > b[2] THEN 1 ELSE -1)
  ELSE IF Abs(a[1]) > Abs(b[1]) THEN 1
  ELSE IF Abs(a[1]) < Abs(b[1]) THEN -1
  ELSE 0

\* a < b, a > b, a <= b as JavaScript evaluates them: false if either is NaN.
Lt(a, b) ==
  IF IsNaN(a) \/ IsNaN(b) \/ a = b THEN FALSE
  ELSE IF a = NegInf \/ b = PosInf THEN TRUE
  ELSE IF a = PosInf \/ b = NegInf THEN FALSE
  ELSE IF a[1] < 0 /\ b[1] >= 0 THEN TRUE
  ELSE IF a[1] = 0 THEN b[1] > 0
  ELSE IF a[1] > 0 /\ b[1] <= 0 THEN FALSE
  ELSE IF a[1] > 0 THEN CmpMag(a, b) < 0
  ELSE CmpMag(a, b) > 0
Gt(a, b) == Lt(b, a)
Le(a, b) == ~IsNaN(a) /\ ~IsNaN(b) /\ ~Lt(b, a)

\* s * (|a| + |b|) for finite |a| >= |b| > 0
AddMag(s, a, b) ==
  LET d == a[2] - b[2]
      w == 2 ^ d
  IN  IF d >= PrecBits + 2 THEN <<s * Abs(a[1]), a[2]>>
      ELSE RoundHL(s, Abs(a[1]) + Abs(b[1]) \div w, Abs(b[1]) % w, w, a[2])

\* s * (|a| - |b|) for finite |a| > |b| > 0
SubMag(s, a, b) ==
  LET d == a[2] - b[2]
      ma == Abs(a[1])
      mb == Abs(b[1])
      w == 2 ^ d
  IN  IF d >= PrecBits + 2 THEN <<s * ma, a[2]>>
      ELSE IF d <= 1 THEN RoundHL(s, ma * w - mb, 0, 1, b[2])
      ELSE IF mb % w = 0 THEN RoundHL(s, ma - mb \div w, 0, w, a[2])
      ELSE RoundHL(s, ma - mb \div w - 1, w - (mb % w), w, a[2])

\* a + b for finite nonzero a and b, c comparing their magnitudes.
AddFinite(a, b, c) ==
  IF Sgn(a[1]) = Sgn(b[1])
    THEN (IF c >= 0 THEN AddMag(Sgn(a[1]), a, b)
          ELSE AddMag(Sgn(a[1]), b, a))
  ELSE IF c = 0 THEN Zero
  ELSE IF c > 0 THEN SubMag(Sgn(a[1]), a, b)
  ELSE SubMag(Sgn(b[1]), b, a)

\* a + b
Add(a, b) ==
  IF IsNaN(a) \/ IsNaN(b) THEN NaN
  ELSE IF IsInf(a) THEN (IF IsInf(b) /\ a # b THEN NaN ELSE a)
  ELSE IF IsInf(b) THEN b
  ELSE IF a[1] = 0 THEN b
  ELSE IF b[1] = 0 THEN a
  ELSE AddFinite(a, b, CmpMag(a, b))

\* a - b
Sub(a, b) == Add(a, Neg(b))

\* s * (hi + l2 / W) * 2^e, rounded, for l2 that may exceed W.
MulRound(s, hi, l2, W, e) == RoundHL(s, hi + l2 \div W, l2 % W, W, e)

\* s * (a1 B + a0) * (b1 B + b0) * 2^(e - 2c) for B = 2^c, rounded: the
\* product from the four partial products, none of which overflows.
MulSplit(s, a1, a0, b1, b0, B, e) ==
  MulRound(s, a1 * b1 + (a1 * b0 + a0 * b1) \div B,
           ((a1 * b0 + a0 * b1) % B) * B + a0 * b0, B * B, e)

\* s * ma * mb * 2^(e - 2c), rounded.
MulMag(s, ma, mb, B, e) ==
  MulSplit(s, ma \div B, ma % B, mb \div B, mb % B, B, e)

\* a * b
Mul(a, b) ==
  IF IsNaN(a) \/ IsNaN(b) THEN NaN
  ELSE IF IsInf(a) \/ IsInf(b)
    THEN (IF a[1] = 0 \/ b[1] = 0 THEN NaN
          ELSE IF Sgn(a[1]) = Sgn(b[1]) THEN PosInf ELSE NegInf)
  ELSE IF a[1] = 0 \/ b[1] = 0 THEN Zero
  ELSE MulMag(Sgn(a[1]) * Sgn(b[1]), Abs(a[1]), Abs(b[1]),
              2 ^ ((PrecBits + 1) \div 2),
              a[2] + b[2] + 2 * ((PrecBits + 1) \div 2))

\* s * (q + r / mb) * 2^e rounded, for qr = <<q, r>>.
DivRound(s, qr, mb, e) == RoundHL(s, qr[1], qr[2], mb, e)

\* a / b
Div(a, b) ==
  IF IsNaN(a) \/ IsNaN(b) THEN NaN
  ELSE IF IsInf(a)
    THEN (IF IsInf(b) THEN NaN
          ELSE IF Sgn(a[1]) = Sgn(b[1]) THEN PosInf ELSE NegInf)
  ELSE IF IsInf(b) THEN Zero
  ELSE IF b[1] = 0
    THEN (IF a[1] = 0 THEN NaN ELSE IF a[1] > 0 THEN PosInf ELSE NegInf)
  ELSE IF a[1] = 0 THEN Zero
  ELSE DivRound(Sgn(a[1]) * Sgn(b[1]),
                DivBits(Abs(a[1]) % Abs(b[1]), Abs(b[1]), PrecBits,
                        Abs(a[1]) \div Abs(b[1])),
                Abs(b[1]), a[2] - b[2] - PrecBits)

\* The remainder r * 2^k mod mb, by doubling.
RECURSIVE RemShift(_, _, _)
RemShift(r, mb, k) ==
  IF k = 0 THEN r ELSE RemShift((2 * r) % mb, mb, k - 1)

\* a % b: the exact remainder, with the sign of the dividend.
Rem(a, b) ==
  IF IsNaN(a) \/ IsNaN(b) \/ IsInf(a) \/ IsZero(b) THEN NaN
  ELSE IF IsInf(b) \/ IsZero(a) THEN a
  ELSE IF CmpMag(a, b) < 0 THEN a
  ELSE RoundHL(Sgn(a[1]),
               RemShift(Abs(a[1]) % Abs(b[1]), Abs(b[1]), a[2] - b[2]),
               0, 1, b[2])

\* The integer nearest to the finite number a (ties away from zero).
ToIntRound(a) ==
  IF a[1] = 0 THEN 0
  ELSE IF a[2] >= 0 THEN a[1] * (2 ^ a[2])
  ELSE IF -a[2] > PrecBits + 1 THEN 0
  ELSE LET w == 2 ^ (-a[2])
       IN  Sgn(a[1]) * ((Abs(a[1]) + w \div 2) \div w)

\* Math.floor(a)
MathFloor(a) ==
  IF IsNaN(a) \/ IsInf(a) \/ a[2] >= 0 THEN a
  ELSE IF -a[2] >= 31 THEN (IF a[1] < 0 THEN Num(-1) ELSE Zero)
  ELSE Num(a[1] \div (2 ^ (-a[2])))

\* floor((r * c + k) / 2^s) for 0 <= r < 2^s and 0 <= k < c < 2^21, nine
\* bits of r at a time so that no product overflows.
RECURSIVE MulShr(_, _, _, _)
MulShr(r, c, s, k) ==
  IF s < 9 \/ r < 512
    THEN (IF s >= 31 THEN 0 ELSE (r * c + k) \div (2 ^ s))
  ELSE MulShr(r \div 512, c, s - 9, ((r % 512) * c + k) \div 512)

\* floor(m * c / 2^s) for m >= 0 and s > 0.
MulDivFloor(m, c, s) ==
  IF s >= 31 THEN MulShr(m, c, s, 0)
  ELSE (m \div (2 ^ s)) * c + MulShr(m % (2 ^ s), c, s, 0)

\* The integer n for which n / 10^digits is nearest to |x|, the larger n
\* of two equally near: the digits x.toFixed(digits) prints (finite x).
toFixedUnits(x, digits) ==
  IF x[2] >= 0 THEN Abs(x[1]) * (2 ^ x[2]) * (10 ^ digits)
  ELSE (MulDivFloor(Abs(x[1]), 2 * (10 ^ digits), -x[2]) + 1) \div 2

\* x.toFixed(digits): the text "NaN", "Infinity" or "-Infinity", or a
\* decimal numeral, kept as its sign, its digits as an integer and the
\* number of decimals.
toFixed(x, digits) ==
  IF IsNaN(x) \/ IsInf(x)
    THEN [text |-> IF IsNaN(x) THEN "NaN"
                   ELSE IF x = PosInf THEN "Infinity" ELSE "-Infinity",
          neg |-> FALSE, units |-> 0, digits |-> digits]
  ELSE [text |-> "decimal", neg |-> x[1] < 0,
        units |-> toFixedUnits(x, digits), digits |-> digits]

\* parseFloat(str) of a string toFixed returned.
parseFloat(str) ==
  IF str.text = "NaN" THEN NaN
  ELSE IF str.text = "Infinity" THEN PosInf
  ELSE IF str.text = "-Infinity" THEN NegInf
  ELSE Frac(IF str.neg THEN -str.units ELSE str.units, 10 ^ str.digits)

(***************************************************************************)
(* The Math functions the calculator calls.                                *)
(***************************************************************************)

\* Math.PI as a fraction (pi to 17 digits), then as a number.
PiNum == 245850922
PiDen == 78256779
PI == Frac(PiNum, PiDen)

\* pi/2 in two pieces for the argument reduction: PIO2_HI has few enough
\* bits for small multiples of it to be exact, PIO2_LO is the rest.
PiO2Bits == DivBits(PiNum % (2 * PiDen), 2 * PiDen, PrecBits - 4,
                    PiNum \div (2 * PiDen))
PIO2_HI == RoundHL(1, PiO2Bits[1], 0, 1, -(PrecBits - 4))
PIO2_LO == Scale(Frac(PiO2Bits[2], 2 * PiDen), -(PrecBits - 4))
TWO_OVER_PI == Frac(2 * PiDen, PiNum)

One == Num(1)

\* Series coefficients: 1/((2n)(2n+1)), 1/((2n-1)(2n)) and 1/(2n+1).
SinCoef == [n \in 1..5 |-> Frac(1, (2 * n) * (2 * n + 1))]
CosCoef == [n \in 1..6 |-> Frac(1, (2 * n - 1) * (2 * n))]
AtanCoef == [n \in 1..12 |-> Frac(1, 2 * n - 1)]

\* 1 - x c[n] (1 - x c[n+1] (1 - ...)), the nested form of the sine and
\* cosine series in x = r^2.
RECURSIVE Horner(_, _, _)
Horner(x, c, n) ==
  IF n > Len(c) THEN One
  ELSE Sub(One, Mul(Mul(x, c[n]), Horner(x, c, n + 1)))

\* sin r and cos r for |r| <= pi/4 (a little more after rounding).
SinPoly(r) == Mul(r, Horner(Mul(r, r), SinCoef, 1))
CosPoly(r) == Horner(Mul(r, r), CosCoef, 1)

\* x - k * pi/2, in two steps, with k mod 4.
ReduceBy(x, k) ==
  <<k % 4, Sub(Sub(x, Mul(Num(k), PIO2_HI)), Mul(Num(k), PIO2_LO))>>

\* Argument reduction: x = k * pi/2 + r with |r| <= pi/4; <<k mod 4, r>>.
Reduce(x) == ReduceBy(x, ToIntRound(Mul(x, TWO_OVER_PI)))

\* The sine and the cosine of k * pi/2 + r from qr = <<k mod 4, r>>.
SinReduced(qr) ==
  CASE qr[1] = 0 -> SinPoly(qr[2])
    [] qr[1] = 1 -> CosPoly(qr[2])
    [] qr[1] = 2 -> Neg(SinPoly(qr[2]))
    [] OTHER -> Neg(CosPoly(qr[2]))
CosReduced(qr) ==
  CASE qr[1] = 0 -> CosPoly(qr[2])
    [] qr[1] = 1 -> Neg(SinPoly(qr[2]))
    [] qr[1] = 2 -> Neg(CosPoly(qr[2]))
    [] OTHER -> SinPoly(qr[2])

\* Math.sin(x)
MathSin(x) == IF IsNaN(x) \/ IsInf(x) THEN NaN ELSE SinReduced(Reduce(x))

\* Math.cos(x)
MathCos(x) == IF IsNaN(x) \/ IsInf(x) THEN NaN ELSE CosReduced(Reduce(x))

\* Integer square root by bisection: the largest s in lo..hi with s*s <= n.
RECURSIVE ISqrt(_, _, _)
ISqrt(n, lo, hi) ==
  IF lo >= hi THEN lo
  ELSE LET mid == (lo + hi + 1) \div 2
       IN  IF mid * mid <= n THEN ISqrt(n, mid, hi) ELSE ISqrt(n, lo, mid - 1)

\* t more bits of a square root: root s and remainder r so far.
RECURSIVE SqrtBits(_, _, _)
SqrtBits(s, r, t) ==
  IF t = 0 THEN <<s, r>>
  ELSE IF 4 * r >= 4 * s + 1 THEN SqrtBits(2 * s + 1, 4 * r - (4 * s + 1), t - 1)
  ELSE SqrtBits(2 * s, 4 * r, t - 1)

\* The square root of m * 2^e, e even, from the remaining bits of the root:
\* sr = <<root, remainder>>.
SqrtRound(sr, e) == RoundHL(1, sr[1], IF sr[2] = 0 THEN 0 ELSE 1, 2, e)

\* ... from the integer root s0 of m and the number t of bits to add to it.
SqrtFrom(m, e, s0, t) ==
  SqrtRound(SqrtBits(s0, m - s0 * s0, t), e \div 2 - t)
SqrtSeed(m, e, s0) == SqrtFrom(m, e, s0, PrecBits + 1 - BitLen(s0))
SqrtOf(m, e) == SqrtSeed(m, e, ISqrt(m, 0, 2 ^ ((PrecBits + 2) \div 2)))

\* Math.sqrt(a), correctly rounded.
MathSqrt(a) ==
  IF IsNaN(a) \/ a[1] < 0 THEN NaN
  ELSE IF IsInf(a) \/ IsZero(a) THEN a
  ELSE IF a[2] % 2 = 1 THEN SqrtOf(2 * a[1], a[2] - 1)
  ELSE SqrtOf(a[1], a[2])

\* u (1 - u^2/3 + u^4/5 - ...), from coefficient n on.
RECURSIVE AtanSeries(_, _)
AtanSeries(u2, n) ==
  IF n = Len(AtanCoef) THEN AtanCoef[n]
  ELSE Sub(AtanCoef[n], Mul(u2, AtanSeries(u2, n + 1)))

\* atan u for |u| <= tan(pi/8)
AtanPoly(u) == Mul(u, AtanSeries(Mul(u, u), 1))

\* atan t for 0 <= t <= 1: the series on t, or pi/4 plus the series on
\* (t - 1) / (t + 1) when t is above tan(pi/8).
Atan01(t) ==
  IF Lt(Frac(29, 70), t)
    THEN Add(Scale(PI, -2), AtanPoly(Div(Sub(t, One), Add(t, One))))
  ELSE AtanPoly(t)

\* atan(ay / ax) in [0, pi/2] for ay > 0 and ax >= 0.
Atan2Base(ay, ax) ==
  IF IsInf(ay) THEN (IF IsInf(ax) THEN Scale(PI, -2) ELSE Scale(PI, -1))
  ELSE IF IsInf(ax) THEN Zero
  ELSE IF IsZero(ax) THEN Scale(PI, -1)
  ELSE IF Le(ay, ax) THEN Atan01(Div(ay, ax))
  ELSE Sub(Scale(PI, -1), Atan01(Div(ax, ay)))

\* The angle of (x, y) from base = atan(|y| / |x|): pi - base left of the
\* axis, negated below it.
Atan2Quadrant(y, x, base) ==
  IF x[1] < 0
    THEN (IF y[1] > 0 THEN Sub(PI, base) ELSE Neg(Sub(PI, base)))
  ELSE (IF y[1] > 0 THEN base ELSE Neg(base))

\* Math.atan2(y, x)
MathAtan2(y, x) ==
  IF IsNaN(y) \/ IsNaN(x) THEN NaN
  ELSE IF IsZero(y) THEN (IF x[1] >= 0 THEN Zero ELSE PI)
  ELSE Atan2Quadrant(y, x, Atan2Base(MathAbs(y), MathAbs(x)))

\* Math.asin(x): NaN outside [-1, 1].
MathAsin(x) ==
  IF IsNaN(x) \/ Lt(One, MathAbs(x)) THEN NaN
  ELSE MathAtan2(x, MathSqrt(Mul(Sub(One, x), Add(One, x))))

\* Math.pow(x, 2)
MathPow2(x) == Mul(x, x)

(***************************************************************************)
(* Constants of the module.                                                *)
(***************************************************************************)

EARTH_RADIUS_KM == Num(6371)
DEG_TO_RAD == Div(PI, Num(180))
RAD_TO_DEG == Div(Num(180), PI)

LAT_MIN == Num(-90)
LAT_MAX == Num(90)
LON_MIN == Num(-180)
LON_MAX == Num(180)
AZIMUTH_MIN == Num(0)
AZIMUTH_MAX == Num(360)

(***************************************************************************)
(* Coordinate conversion.                                                  *)
(***************************************************************************)

\* dmsToDecimal adding the three terms to the signed degrees, as the formula
\* in its comment reads.
dmsToDecimalSignedSum(degrees, minutes, seconds) ==
  Add(Add(degrees, Div(minutes, Num(60))), Div(seconds, Num(3600)))

\* dmsToDecimal(degrees, minutes, seconds)
dmsToDecimal(degrees, minutes, seconds) ==
  LET sign == IF Lt(degrees, Zero) THEN Num(-1) ELSE One
      absDegrees == MathAbs(degrees)
      decimal == Add(Add(absDegrees, Div(minutes, Num(60))),
                     Div(seconds, Num(3600)))
  IN  Mul(sign, decimal)

\* decimalToDMS(decimal): the object {degrees, minutes, seconds}.
decimalToDMS(decimal) ==
  LET sign == IF Lt(decimal, Zero) THEN Num(-1) ELSE One
      absolute == MathAbs(decimal)
      degrees == MathFloor(absolute)
      minutesFloat == Mul(Sub(absolute, degrees), Num(60))
      minutes == MathFloor(minutesFloat)
      seconds == Mul(Sub(minutesFloat, minutes), Num(60))
  IN  [degrees |-> Mul(sign, degrees),
       minutes |-> minutes,
       seconds |-> parseFloat(toFixed(seconds, 2))]

(***************************************************************************)
(* Geodesic calculations.                                                  *)
(***************************************************************************)

\* The object calculateTargetCoordinate returns, from lat2 and lon2: both
\* in degrees, the longitude normalised to [-180, 180].
targetDegrees(lat2, lon2) ==
  [lat |-> Mul(lat2, RAD_TO_DEG),
   lon |-> Sub(Rem(Add(Mul(lon2, RAD_TO_DEG), Num(540)), Num(360)),
               Num(180))]

\* calculateTargetCoordinate from lat2 on: lon2, then the returned object.
targetFromLat2(lat1, lon1, bearing, delta, lat2) ==
  targetDegrees(lat2,
                Add(lon1,
                    MathAtan2(Mul(Mul(MathSin(bearing), MathSin(delta)),
                                  MathCos(lat1)),
                              Sub(MathCos(delta),
                                  Mul(MathSin(lat1), MathSin(lat2))))))

\* calculateTargetCoordinate from its arguments in radians: lat2, then the
\* rest.
targetFromRadians(lat1, lon1, bearing, delta) ==
  targetFromLat2(lat1, lon1, bearing, delta,
                 MathAsin(Add(Mul(MathSin(lat1), MathCos(delta)),
                              Mul(Mul(MathCos(lat1), MathSin(delta)),
                                  MathCos(bearing)))))

\* calculateTargetCoordinate(lat, lon, azimuthDeg, distanceKm): the
\* destination point {lat, lon} on the sphere.
calculateTargetCoordinate(lat, lon, azimuthDeg, distanceKm) ==
  targetFromRadians(Mul(lat, DEG_TO_RAD), Mul(lon, DEG_TO_RAD),
                    Mul(azimuthDeg, DEG_TO_RAD),
                    Div(distanceKm, EARTH_RADIUS_KM))

\* calculateDistance from a on: c, then the distance.
distanceFromA(a) ==
  Mul(EARTH_RADIUS_KM,
      Mul(Num(2), MathAtan2(MathSqrt(a), MathSqrt(Sub(One, a)))))

\* calculateDistance from the latitudes and the differences in radians.
haversine(phi1, phi2, dphi, dlambda) ==
  distanceFromA(
    Add(Mul(MathSin(Div(dphi, Num(2))), MathSin(Div(dphi, Num(2)))),
        Mul(Mul(Mul(MathCos(phi1), MathCos(phi2)),
                MathSin(Div(dlambda, Num(2)))),
            MathSin(Div(dlambda, Num(2))))))

\* calculateDistance with cos(phi1) squared in place of cos(phi1) * cos(phi2).
calculateDistanceOneCos(lat1, lon1, lat2, lon2) ==
  haversine(Mul(lat1, DEG_TO_RAD), Mul(lat1, DEG_TO_RAD),
            Mul(Sub(lat2, lat1), DEG_TO_RAD),
            Mul(Sub(lon2, lon1), DEG_TO_RAD))

\* calculateDistance(lat1, lon1, lat2, lon2): the haversine distance in km.
calculateDistance(lat1, lon1, lat2, lon2) ==
  haversine(Mul(lat1, DEG_TO_RAD), Mul(lat2, DEG_TO_RAD),
            Mul(Sub(lat2, lat1), DEG_TO_RAD),
            Mul(Sub(lon2, lon1), DEG_TO_RAD))

\* bearingFromRadians without the + 360 ahead of the remainder.
bearingFromRadiansNoShift(phi1, phi2, dlambda) ==
  Rem(Mul(MathAtan2(Mul(MathSin(dlambda), MathCos(phi2)),
                    Sub(Mul(MathCos(phi1), MathSin(phi2)),
                        Mul(Mul(MathSin(phi1), MathCos(phi2)),
                            MathCos(dlambda)))),
          RAD_TO_DEG),
      Num(360))

\* calculateBearing from the latitudes and the longitude difference in
\* radians: y, x, theta and the bearing normalised to [0, 360).
bearingFromRadians(phi1, phi2, dlambda) ==
  Rem(Add(Mul(MathAtan2(Mul(MathSin(dlambda), MathCos(phi2)),
                        Sub(Mul(MathCos(phi1), MathSin(phi2)),
                            Mul(Mul(MathSin(phi1), MathCos(phi2)),
                                MathCos(dlambda)))),
              RAD_TO_DEG),
          Num(360)),
      Num(360))

\* calculateBearing(lat1, lon1, lat2, lon2): the initial bearing in degrees.
calculateBearing(lat1, lon1, lat2, lon2) ==
  bearingFromRadians(Mul(lat1, DEG_TO_RAD), Mul(lat2, DEG_TO_RAD),
                     Mul(Sub(lon2, lon1), DEG_TO_RAD))

\* estimateError with the azimuth term left in kilometres.
estimateErrorKilometres(distanceKm, gpsError, azimuthError, distanceError) ==
  MathSqrt(Add(Add(MathPow2(gpsError),
                   MathPow2(Mul(distanceKm,
                                MathSin(Mul(azimuthError, DEG_TO_RAD))))),
               MathPow2(distanceError)))

\* estimateError(distanceKm, gpsError, azimuthError, distanceError): the
\* root sum square of the three error sources, in metres.
estimateError(distanceKm, gpsError, azimuthError, distanceError) ==
  MathSqrt(Add(Add(MathPow2(gpsError),
                   MathPow2(Mul(Mul(distanceKm, Num(1000)),
                                MathSin(Mul(azimuthError, DEG_TO_RAD))))),
               MathPow2(distanceError)))

(***************************************************************************)
(* Validation.                                                             *)
(***************************************************************************)

MsgLat == "Vi do phai trong khoang -90 den 90"
MsgLon == "Kinh do phai trong khoang -180 den 180"
MsgAzimuth == "Goc azimuth phai trong khoang 0 den 360"
MsgDistance == "Khoang cach phai lon hon 0 km"
MsgWarning == "Canh bao: Khoang cach lon (>100km) co the lam giam do chinh xac"
MsgNaN == "Du lieu dau vao khong hop le"

\* validateInput with the longitude check ahead of the latitude check.
validateInputLonFirst(data) ==
  IF Lt(data.lon, LON_MIN) \/ Gt(data.lon, LON_MAX) THEN MsgLon
  ELSE IF Lt(data.lat, LAT_MIN) \/ Gt(data.lat, LAT_MAX) THEN MsgLat
  ELSE IF Lt(data.azimuth, AZIMUTH_MIN) \/ Gt(data.azimuth, AZIMUTH_MAX)
    THEN MsgAzimuth
  ELSE IF Le(data.distance, Num(0)) THEN MsgDistance
  ELSE IF Gt(data.distance, Num(100)) THEN MsgWarning
  ELSE IF IsNaN(data.lat) \/ IsNaN(data.lon) \/ IsNaN(data.azimuth)
          \/ IsNaN(data.distance) THEN MsgNaN
  ELSE ""

\* validateInput with the upper latitude bound exclusive (>= for >).
validateInputExclusiveLat(data) ==
  IF Lt(data.lat, LAT_MIN) \/ ~Lt(data.lat, LAT_MAX) THEN MsgLat
  ELSE IF Lt(data.lon, LON_MIN) \/ Gt(data.lon, LON_MAX) THEN MsgLon
  ELSE IF Lt(data.azimuth, AZIMUTH_MIN) \/ Gt(data.azimuth, AZIMUTH_MAX)
    THEN MsgAzimuth
  ELSE IF Le(data.distance, Num(0)) THEN MsgDistance
  ELSE IF Gt(data.distance, Num(100)) THEN MsgWarning
  ELSE IF IsNaN(data.lat) \/ IsNaN(data.lon) \/ IsNaN(data.azimuth)
          \/ IsNaN(data.distance) THEN MsgNaN
  ELSE ""

\* validateInput without its last check, the isNaN test.
validateInputNoNaNCheck(data) ==
  IF Lt(data.lat, LAT_MIN) \/ Gt(data.lat, LAT_MAX) THEN MsgLat
  ELSE IF Lt(data.lon, LON_MIN) \/ Gt(data.lon, LON_MAX) THEN MsgLon
  ELSE IF Lt(data.azimuth, AZIMUTH_MIN) \/ Gt(data.azimuth, AZIMUTH_MAX)
    THEN MsgAzimuth
  ELSE IF Le(data.distance, Num(0)) THEN MsgDistance
  ELSE IF Gt(data.distance, Num(100)) THEN MsgWarning
  ELSE ""

\* validateInput(data): the first failing check's message, '' when valid.
validateInput(data) ==
  IF Lt(data.lat, LAT_MIN) \/ Gt(data.lat, LAT_MAX) THEN MsgLat
  ELSE IF Lt(data.lon, LON_MIN) \/ Gt(data.lon, LON_MAX) THEN MsgLon
  ELSE IF Lt(data.azimuth, AZIMUTH_MIN) \/ Gt(data.azimuth, AZIMUTH_MAX)
    THEN MsgAzimuth
  ELSE IF Le(data.distance, Num(0)) THEN MsgDistance
  ELSE IF Gt(data.distance, Num(100)) THEN MsgWarning
  ELSE IF IsNaN(data.lat) \/ IsNaN(data.lon) \/ IsNaN(data.azimuth)
          \/ IsNaN(data.distance) THEN MsgNaN
  ELSE ""

(***************************************************************************)
(* The main calculation.                                                   *)
(***************************************************************************)

MsgCalc == "Loi tinh toan"

\* Number.prototype.toFixed(digits) throws a RangeError for digits outside
\* 0..100 and for nothing else; it is the only operation under the try
\* block of calculateTarget that can throw when the receiver is a number.
toFixedThrows(digits) == digits < 0 \/ digits > 100

\* The object the try block of calculateTarget returns, from the values of
\* its constants target, verifyDistance, verifyBearing and estimatedError.
\* ret is the returned object; invoked lists the functions of the module in
\* the order calculateTarget first calls them. Of the data object the numeric
\* fields are modelled; its formatted strings and DMS objects are computed
\* from them by formatDecimal (toFixed(6)), decimalToDMS (toFixed(2)),
\* formatAzimuth (toFixed(1)), formatDistance (toFixed(0) or toFixed(2)) and
\* the template with toFixed(1).
tryResult(in, target, verifyDistance, verifyBearing, estimatedError) ==
  IF toFixedThrows(6) \/ toFixedThrows(2) \/ toFixedThrows(1)
     \/ toFixedThrows(0)
    THEN [ret |-> [success |-> FALSE, error |-> MsgCalc],
          invoked |-> <<"validateInput", "calculateTargetCoordinate",
                        "calculateDistance", "calculateBearing",
                        "estimateError">>]
  ELSE [ret |->
          [success |-> TRUE,
           data |->
             [observer |-> [lat |-> in.observerLat, lon |-> in.observerLon],
              target |-> [lat |-> target.lat, lon |-> target.lon],
              measurement |-> [azimuth |-> in.azimuth,
                               distance |-> in.distance],
              verification |->
                [distance |-> verifyDistance,
                 bearing |-> verifyBearing,
                 distanceError |-> MathAbs(Sub(verifyDistance, in.distance)),
                 bearingError |-> MathAbs(Sub(verifyBearing, in.azimuth))],
              estimatedError |-> [meters |-> estimatedError]]],
        invoked |-> <<"validateInput", "calculateTargetCoordinate",
                      "calculateDistance", "calculateBearing",
                      "estimateError", "formatDecimal", "decimalToDMS",
                      "formatAzimuth", "formatDistance">>]

\* The try block after the forward solution: the two verifications against
\* the target and the error estimate.
tryVerify(in, target) ==
  tryResult(in, target,
            calculateDistance(in.observerLat, in.observerLon,
                              target.lat, target.lon),
            calculateBearing(in.observerLat, in.observerLon,
                             target.lat, target.lon),
            estimateError(in.distance, Num(10), Frac(1, 2), Frac(1, 2)))

\* The try block of calculateTarget: the forward solution, then the rest.
tryBlock(in) ==
  tryVerify(in, calculateTargetCoordinate(in.observerLat, in.observerLon,
                                          in.azimuth, in.distance))

\* The validation calculateTarget runs on its input.
validationOf(in) ==
  validateInput([lat |-> in.observerLat, lon |-> in.observerLon,
                 azimuth |-> in.azimuth, distance |-> in.distance])

\* calculateTarget running the try block before it looks at the validation.
calculateTargetComputeFirst(in) ==
  LET computed == tryBlock(in)
  IN  IF validationOf(in) # ""
        THEN [ret |-> [success |-> FALSE, error |-> validationOf(in)],
              invoked |-> computed.invoked]
      ELSE computed

\* calculateTarget dropping the message of a failed validation.
calculateTargetEmptyError(in) ==
  IF validationOf(in) # ""
    THEN [ret |-> [success |-> FALSE, error |-> ""],
          invoked |-> <<"validateInput">>]
  ELSE tryBlock(in)

\* calculateTarget(input): validate, return the failure at once if the
\* validation returned a message, otherwise run the try block.
calculateTarget(in) ==
  IF validationOf(in) # ""
    THEN [ret |-> [success |-> FALSE, error |-> validationOf(in)],
          invoked |-> <<"validateInput">>]
  ELSE tryBlock(in)

(***************************************************************************)
(* Validation of a DMS triple.                                             *)
(***************************************************************************)

MsgDmsNaN == "Gia tri DMS khong hop le"
MsgDmsMinutes == "Phut phai trong khoang 0-59"
MsgDmsSeconds == "Giay phai trong khoang 0-59.99"
MsgDmsLat == "Do vi do phai trong khoang -90 den 90"
MsgDmsLon == "Do kinh do phai trong khoang -180 den 180"

\* validateDMS with the degrees checked before the minutes and the seconds.
validateDMSDegreesFirst(degrees, minutes, seconds, type) ==
  IF IsNaN(degrees) \/ IsNaN(minutes) \/ IsNaN(seconds) THEN MsgDmsNaN
  ELSE IF type = "lat" /\ Gt(MathAbs(degrees), Num(90)) THEN MsgDmsLat
  ELSE IF type = "lon" /\ Gt(MathAbs(degrees), Num(180)) THEN MsgDmsLon
  ELSE IF Lt(minutes, Zero) \/ Le(Num(60), minutes) THEN MsgDmsMinutes
  ELSE IF Lt(seconds, Zero) \/ Le(Num(60), seconds) THEN MsgDmsSeconds
  ELSE ""

\* validateDMS(degrees, minutes, seconds, type): the diagnostic of the first
\* failing check, or the empty string.
validateDMS(degrees, minutes, seconds, type) ==
  IF IsNaN(degrees) \/ IsNaN(minutes) \/ IsNaN(seconds) THEN MsgDmsNaN
  ELSE IF Lt(minutes, Zero) \/ Le(Num(60), minutes) THEN MsgDmsMinutes
  ELSE IF Lt(seconds, Zero) \/ Le(Num(60), seconds) THEN MsgDmsSeconds
  ELSE IF type = "lat"
    THEN (IF Gt(MathAbs(degrees), Num(90)) THEN MsgDmsLat ELSE "")
  ELSE IF type = "lon"
    THEN (IF Gt(MathAbs(degrees), Num(180)) THEN MsgDmsLon ELSE "")
  ELSE ""

(***************************************************************************)
(* Formatting. A formatted string is modelled by its parts: the printed    *)
(* number (toFixed) and the text around it.                                *)
(***************************************************************************)

\* formatDistance with the metres also used for a distance of exactly 1 km.
formatDistanceInclusive(distanceKm) ==
  IF Le(distanceKm, One)
    THEN [number |-> toFixed(Mul(distanceKm, Num(1000)), 0), unit |-> "m"]
  ELSE [number |-> toFixed(distanceKm, 2), unit |-> "km"]

\* formatDistance(distanceKm): whole metres below 1 km, kilometres with two
\* decimals otherwise.
formatDistance(distanceKm) ==
  IF Lt(distanceKm, One)
    THEN [number |-> toFixed(Mul(distanceKm, Num(1000)), 0), unit |-> "m"]
  ELSE [number |-> toFixed(distanceKm, 2), unit |-> "km"]

\* The table of formatAzimuth: north is listed at 0 and at 360.
directions ==
  << [angle |-> Zero, short |-> "N", full |-> "Bac"],
     [angle |-> Num(45), short |-> "NE", full |-> "Dong Bac"],
     [angle |-> Num(90), short |-> "E", full |-> "Dong"],
     [angle |-> Num(135), short |-> "SE", full |-> "Dong Nam"],
     [angle |-> Num(180), short |-> "S", full |-> "Nam"],
     [angle |-> Num(225), short |-> "SW", full |-> "Tay Nam"],
     [angle |-> Num(270), short |-> "W", full |-> "Tay"],
     [angle |-> Num(315), short |-> "NW", full |-> "Tay Bac"],
     [angle |-> Num(360), short |-> "N", full |-> "Bac"] >>

\* The test of the loop with a direction as far away as the closest so far
\* taking its place.
closerOrEqual(diff, minDiff) == Le(diff, minDiff)

\* The test of the loop of formatAzimuth: diff < minDiff.
closer(diff, minDiff) == Lt(diff, minDiff)

\* The loop of formatAzimuth from the i-th direction on: the closest
\* direction, given the closest so far and its difference.
RECURSIVE closestFrom(_, _, _, _)
closestFrom(azimuth, i, closestDir, minDiff) ==
  IF i > Len(directions) THEN closestDir
  ELSE IF closer(MathAbs(Sub(azimuth, directions[i].angle)), minDiff)
    THEN closestFrom(azimuth, i + 1, directions[i],
                     MathAbs(Sub(azimuth, directions[i].angle)))
  ELSE closestFrom(azimuth, i + 1, closestDir, minDiff)

\* The string formatAzimuth builds from the closest direction.
azimuthText(azimuth, closestDir) ==
  [number |-> toFixed(azimuth, 1), short |-> closestDir.short,
   full |-> closestDir.full]

\* formatAzimuth(azimuth): the azimuth with one decimal and the closest
\* direction.
formatAzimuth(azimuth) ==
  azimuthText(azimuth,
              closestFrom(azimuth, 1, directions[1],
                          MathAbs(Sub(azimuth, directions[1].angle))))

(***************************************************************************)
(* The page script (src/js/mapViewer.js): the switch between the decimal   *)
(* and the DMS inputs. dom holds currentMode and, for every input element, *)
(* the number parseFloat reads from its value. A number assigned to a      *)
(* value is printed in full and reads back as the same number; toFixed(6)  *)
(* prints six decimals and reads back as the nearest number to them.       *)
(***************************************************************************)

\* The branch of handleModeToggle that leaves decimal mode, from the two
\* converted coordinates.
showDMS(dom, latDMS, lonDMS) ==
  [dom EXCEPT !.latDeg = latDMS.degrees, !.latMin = latDMS.minutes,
              !.latSec = latDMS.seconds, !.lonDeg = lonDMS.degrees,
              !.lonMin = lonDMS.minutes, !.lonSec = lonDMS.seconds,
              !.mode = "dms"]

\* The branch of handleModeToggle that leaves DMS mode, from the two
\* converted coordinates.
showDecimal(dom, latDec, lonDec) ==
  [dom EXCEPT !.latDecimal = parseFloat(toFixed(latDec, 6)),
              !.lonDecimal = parseFloat(toFixed(lonDec, 6)),
              !.mode = "decimal"]

\* handleModeToggle(): the page after the switch.
handleModeToggle(dom) ==
  IF dom.mode = "decimal"
    THEN showDMS(dom, decimalToDMS(dom.latDecimal),
                 decimalToDMS(dom.lonDecimal))
  ELSE showDecimal(dom,
                   dmsToDecimal(dom.latDeg, dom.latMin, dom.latSec),
                   dmsToDecimal(dom.lonDeg, dom.lonMin, dom.lonSec))

(***************************************************************************)
(* The page and its map (src/js/mapViewer.js). p is the page: currentMode  *)
(* (mode), the number in every input, the display of the result section    *)
(* and of the error message with their texts, the copy button, the         *)
(* clipboard writes not yet settled (writes), the reset timers not yet     *)
(* fired with the label each one captured (timers, in firing order: all    *)
(* have the same delay), the observer marker, and the target markers and   *)
(* the polylines that are on the map; targetMarker and bearingLine refer   *)
(* to the last of these, and are null when there is none. The map's view   *)
(* (fitMapToBounds), popups and scrolling are not part of p.               *)
(***************************************************************************)

CopyLabel == "Copy"
CopiedLabel == "Da copy!"
MsgCopy == "Khong the copy toa do. Vui long thu lai."

hideError(p) == [p EXCEPT !.errorMessage = "none"]

hideResult(p) == [p EXCEPT !.resultSection = "none"]

showError(p, message) ==
  [p EXCEPT !.errorText = message, !.errorMessage = "flex"]

\* formatDecimal(decimal, precision): the number with precision decimals,
\* followed by the degree sign.
formatDecimal(decimal, precision) == toFixed(decimal, precision)

\* displayResult(data): the four texts of the result section, which is then
\* displayed.
displayResult(p, data) ==
  [p EXCEPT !.resultLat = formatDecimal(data.target.lat, 6),
            !.resultLon = formatDecimal(data.target.lon, 6),
            !.resultDistance = formatDistance(data.measurement.distance),
            !.resultAzimuth = formatAzimuth(data.measurement.azimuth),
            !.resultSection = "block"]

\* Leaflet's LatLng constructor throws 'Invalid LatLng object' for these.
InvalidLatLng(lat, lon) == IsNaN(lat) \/ IsNaN(lon)

updateObserverMarker(p, lat, lon) ==
  [p EXCEPT !.observerMarker = [lat |-> lat, lon |-> lon]]

\* updateTargetMarker: the existing marker is moved; without one, a marker
\* is created and added to the map.
updateTargetMarker(p, lat, lon) ==
  IF p.targetMarkers # <<>>
    THEN [p EXCEPT !.targetMarkers[Len(p.targetMarkers)] =
                      [lat |-> lat, lon |-> lon]]
  ELSE [p EXCEPT !.targetMarkers = Append(@, [lat |-> lat, lon |-> lon])]

\* drawBearingLine: the old line is removed from the map and a new one is
\* added.
drawBearingLine(p, obsLat, obsLon, tgtLat, tgtLon) ==
  [p EXCEPT !.lines =
     Append(IF p.lines # <<>> THEN SubSeq(p.lines, 1, Len(p.lines) - 1)
            ELSE p.lines,
            [from |-> [lat |-> obsLat, lon |-> obsLon],
             to |-> [lat |-> tgtLat, lon |-> tgtLon]])]

\* The map updates of a successful handleCalculate. A call that hands
\* Leaflet a NaN coordinate throws, and ends the handler there.
updateMap(p, obsLat, obsLon, target) ==
  IF InvalidLatLng(obsLat, obsLon) THEN p
  ELSE IF InvalidLatLng(target.lat, target.lon)
    THEN updateObserverMarker(p, obsLat, obsLon)
  ELSE drawBearingLine(
         updateTargetMarker(updateObserverMarker(p, obsLat, obsLon),
                            target.lat, target.lon),
         obsLat, obsLon, target.lat, target.lon)

\* handleCalculate with the observer marker moved before the result is
\* looked at.
showCalculationMoveFirst(p, obsLat, obsLon, result) ==
  IF result.success
    THEN updateMap(displayResult(p, result.data), obsLat, obsLon,
                   result.data.target)
  ELSE showError(updateObserverMarker(p, obsLat, obsLon), result.error)

\* handleCalculate from the result of calculateTarget on.
showCalculation(p, obsLat, obsLon, result) ==
  IF result.success
    THEN updateMap(displayResult(p, result.data), obsLat, obsLon,
                   result.data.target)
  ELSE showError(p, result.error)

\* The observer of handleCalculate: the decimal inputs, or the DMS inputs
\* converted.
observerLatOf(p) ==
  IF p.mode = "decimal" THEN p.latDecimal
  ELSE dmsToDecimal(p.latDeg, p.latMin, p.latSec)
observerLonOf(p) ==
  IF p.mode = "decimal" THEN p.lonDecimal
  ELSE dmsToDecimal(p.lonDeg, p.lonMin, p.lonSec)

calculateFrom(p, obsLat, obsLon) ==
  showCalculation(p, obsLat, obsLon,
                  calculateTarget([observerLat |-> obsLat,
                                   observerLon |-> obsLon,
                                   azimuth |-> p.azimuth,
                                   distance |-> p.distance]).ret)

\* handleCalculate with the old error message left displayed.
handleCalculateKeepError(p) ==
  calculateFrom(hideResult(p), observerLatOf(p), observerLonOf(p))

\* handleCalculate(): the page after the click.
handleCalculate(p) ==
  calculateFrom(hideResult(hideError(p)), observerLatOf(p), observerLonOf(p))

\* handleCopyCoordinates(): a clipboard write is started.
handleCopyCoordinates(p) == [p EXCEPT !.writes = @ + 1]

\* The then callback of a write: the label of the button is kept for the
\* timer, and the button shows the copied label and styles.
writeResolved(p) ==
  [p EXCEPT !.writes = @ - 1,
            !.timers = Append(@, p.copyBtn.innerHTML),
            !.copyBtn = [innerHTML |-> CopiedLabel, styled |-> TRUE]]

\* The catch callback of a write.
writeRejected(p) == showError([p EXCEPT !.writes = @ - 1], MsgCopy)

\* The callback of the first timer: the kept label is put back and the
\* styles are cleared.
resetCopyButton(p) ==
  [p EXCEPT !.copyBtn = [innerHTML |-> Head(p.timers), styled |-> FALSE],
            !.timers = Tail(@)]

\* The user fills in the inputs of the current mode, the azimuth and the
\* distance.
typeForm(p, form) ==
  IF p.mode = "decimal"
    THEN [p EXCEPT !.latDecimal = form.lat, !.lonDecimal = form.lon,
                   !.azimuth = form.azimuth, !.distance = form.distance]
  ELSE [p EXCEPT !.latDeg = form.latDMS[1], !.latMin = form.latDMS[2],
                 !.latSec = form.latDMS[3], !.lonDeg = form.lonDMS[1],
                 !.lonMin = form.lonDMS[2], !.lonSec = form.lonDMS[3],
                 !.azimuth = form.azimuth, !.distance = form.distance]

\* The inputs loadTestCase fills in.
fillTestCase(p, testCase) ==
  [p EXCEPT !.latDecimal = testCase.observer.lat,
            !.lonDecimal = testCase.observer.lon,
            !.azimuth = testCase.azimuth,
            !.distance = testCase.distance]

\* The click on the mode switch at the end of loadTestCase.
switchToDecimal(p) == IF p.mode = "dms" THEN handleModeToggle(p) ELSE p

\* loadTestCase(testCase): the page after the call.
loadTestCase(p, testCase) == switchToDecimal(fillTestCase(p, testCase))

(***************************************************************************)
(* The callers: a page script calls a function of the module with some     *)
(* arguments and receives its result.                                      *)
(***************************************************************************)

\* Argument values the callers draw from: the edges of every range and a
\* value on either side, NaN and the infinities, the observer of the
\* documented example, an observer 83.7 km from the north pole, and
\* distances from one metre to beyond the 100 km limit.
LatValues ==
  {NaN, NegInf, Num(-91), Num(-90), Num(-45), Zero, Frac(10762622, 1000000),
   Frac(89247, 1000), Num(90), Frac(900001, 10000), PosInf}
LonValues ==
  {NaN, Num(-181), Num(-180), Frac(106660172, 1000000), Num(180), Num(181)}
AzimuthValues ==
  {NaN, Num(-1), Zero, Num(45), Num(90), Num(180), Num(270), Num(360),
   Num(361)}
DistanceValues ==
  {NaN, Num(-1), Zero, Frac(1, 1000), Frac(5, 2), Frac(8370, 100), Num(100),
   Frac(1000001, 10000), Num(150), PosInf}

\* Points the distance is measured between.
PointLats == {Num(-90), Num(-45), Zero, Frac(10762622, 1000000), Num(90)}
PointLons == {Num(-180), Zero, Frac(106660172, 1000000), Num(180)}

\* Longitudes of the second point of a bearing: those of PointLons and one
\* two millionths of a degree west of the documented observer.
PointLonsNear == PointLons \cup {Frac(10666017, 100000)}

\* DMS components a caller converts: whole degrees of either sign, whole
\* minutes and seconds below 60.
DmsDegrees ==
  {Num(-180), Num(-10), Num(-1), Zero, Num(10), Num(21), Num(90), Num(180)}
DmsMinutes == {Zero, Num(12), Num(30), Num(45), Num(59)}
DmsSeconds == {Zero, Frac(1, 2), Frac(4544, 100), Frac(5999, 100)}

\* Decimal coordinates a caller converts: both signs, values between -1 and
\* 1, values just below a whole minute and a whole degree, and the ends of
\* the longitude range.
DecimalValues ==
  {Num(-180), Frac(-106660172, 1000000), Frac(-102, 10), Frac(-1, 2),
   Frac(-1, 100), Zero, Frac(1, 2), Frac(9999999, 10000000), Frac(102, 10),
   Frac(10762622, 1000000), Frac(599999999, 10000000), Num(90), Num(180)}

\* Pages the switch is clicked on: in decimal mode with a latitude and a
\* longitude typed in, and in DMS mode with a latitude typed in.
PageLatitudes ==
  {Num(-90), Frac(-1, 2), Zero, Frac(10762622, 1000000), Num(90)}
DecimalPages ==
  {[mode |-> "decimal", latDecimal |-> lat, lonDecimal |-> lon,
    latDeg |-> Zero, latMin |-> Zero, latSec |-> Zero,
    lonDeg |-> Zero, lonMin |-> Zero, lonSec |-> Zero] :
     lat \in PageLatitudes, lon \in DecimalValues}
DMSPages ==
  {[mode |-> "dms", latDecimal |-> Zero, lonDecimal |-> Zero,
    latDeg |-> d, latMin |-> m, latSec |-> s,
    lonDeg |-> Num(106), lonMin |-> Num(39), lonSec |-> Frac(3662, 100)] :
     d \in {Num(-10), Zero, Num(21)}, m \in DmsMinutes, s \in DmsSeconds}

\* DMS triples and axes handed to validateDMS.
CheckedDegrees ==
  {NaN, Num(-181), Num(-180), Num(-91), Num(-90), Zero, Num(90),
   Frac(901, 10), Num(180), Frac(1801, 10)}
CheckedMinutes == {NaN, Num(-1), Zero, Num(59), Num(60)}
CheckedSeconds == {NaN, Frac(-1, 100), Zero, Frac(5999, 100), Num(60)}
AxisTypes == {"lat", "lon", "alt"}

\* Distances handed to formatDistance.
FormattedDistances ==
  {NaN, Num(-1), Zero, Frac(4, 10000), Frac(1, 2), Frac(9994, 10000),
   Frac(9996, 10000), One, Frac(1004, 1000), Frac(5, 2),
   Frac(12346, 1000), Num(100)}

\* Azimuths handed to formatAzimuth.
FormattedAzimuths ==
  {NaN, Num(-1), Zero, Num(10), Frac(45, 2), Num(30), Num(45), Frac(135, 2),
   Num(90), Num(135), Num(180), Num(200), Num(225), Num(270),
   Frac(585, 2), Num(315), Frac(675, 2), Num(350), Num(360), Num(361)}

\* Arguments of direct calls of calculateTargetCoordinate, which is exported
\* and checks nothing: starting longitudes inside and outside [-180, 180].
StartLats ==
  {Num(-90), Frac(-895, 10), Zero, Frac(10762622, 1000000), Frac(895, 10),
   Num(90)}
StartLons ==
  {Num(-725), Num(-540), Num(-190), Num(-180), Num(10),
   Frac(106660172, 1000000), Num(180), Num(190), Num(540), Num(725)}
StartAzimuths == {Zero, Num(90), Num(180), Num(270)}
StartDistances == {Frac(5, 2), Frac(8370, 100), Num(100)}

\* The most clipboard writes and reset timers pending at a time.
MaxPending == 2

\* SAMPLE_TEST_CASES.
SAMPLE_TEST_CASES ==
  << [observer |-> [lat |-> Frac(10762622, 1000000),
                    lon |-> Frac(106660172, 1000000)],
      azimuth |-> Num(45), distance |-> Frac(5, 2)],
     [observer |-> [lat |-> Frac(21028511, 1000000),
                    lon |-> Frac(105804817, 1000000)],
      azimuth |-> Zero, distance |-> Num(5)],
     [observer |-> [lat |-> Frac(16047079, 1000000),
                    lon |-> Frac(108206230, 1000000)],
      azimuth |-> Num(90), distance |-> Num(3)] >>

\* The test cases that are loaded.
LoadedTestCases == {SAMPLE_TEST_CASES[1], SAMPLE_TEST_CASES[2]}

\* What the user types into the form: an observer, in decimal degrees and
\* as DMS triples, with an azimuth and a distance. The first is just short
\* of the north pole, the second has an azimuth out of range, the third a
\* distance above 100 km.
Forms ==
  {[lat |-> Frac(89244734, 1000000), lon |-> Frac(106660172, 1000000),
    latDMS |-> <<Num(89), Num(14), Frac(410424, 10000)>>,
    lonDMS |-> <<Num(106), Num(39), Frac(3662, 100)>>,
    azimuth |-> Zero, distance |-> Frac(8398171, 100000)],
   [lat |-> Frac(10762622, 1000000), lon |-> Frac(106660172, 1000000),
    latDMS |-> <<Num(10), Num(45), Frac(4544, 100)>>,
    lonDMS |-> <<Num(106), Num(39), Frac(3662, 100)>>,
    azimuth |-> Num(361), distance |-> Frac(5, 2)],
   [lat |-> Frac(10762622, 1000000), lon |-> Frac(106660172, 1000000),
    latDMS |-> <<Num(10), Num(45), Frac(4544, 100)>>,
    lonDMS |-> <<Num(106), Num(39), Frac(3662, 100)>>,
    azimuth |-> Num(45), distance |-> Num(150)]}

\* The page after initializeMap('map', 10.762622, 106.660172): decimal
\* mode, nothing displayed, the observer marker at the centre.
PageStart ==
  [mode |-> "decimal",
   latDecimal |-> Frac(10762622, 1000000),
   lonDecimal |-> Frac(106660172, 1000000),
   latDeg |-> Zero, latMin |-> Zero, latSec |-> Zero,
   lonDeg |-> Zero, lonMin |-> Zero, lonSec |-> Zero,
   azimuth |-> Num(45), distance |-> Frac(5, 2),
   resultSection |-> "none", errorMessage |-> "none", errorText |-> "",
   resultLat |-> toFixed(Zero, 6), resultLon |-> toFixed(Zero, 6),
   resultDistance |-> formatDistance(Zero),
   resultAzimuth |-> formatAzimuth(Zero),
   copyBtn |-> [innerHTML |-> CopyLabel, styled |-> FALSE],
   writes |-> 0, timers |-> <<>>,
   observerMarker |-> [lat |-> Frac(10762622, 1000000),
                       lon |-> Frac(106660172, 1000000)],
   targetMarkers |-> <<>>, lines |-> <<>>]

Init ==
  /\ pc = "idle"
  /\ fn = "none"
  /\ input = <<>>
  /\ ret = <<>>
  /\ invoked = <<>>
  /\ page = PageStart

\* A caller validates a form.
ValidateInput ==
  /\ pc = "idle"
  /\ \E lat \in LatValues, lon \in LonValues, azimuth \in AzimuthValues,
        distance \in DistanceValues :
       /\ input' = [lat |-> lat, lon |-> lon, azimuth |-> azimuth,
                    distance |-> distance]
       /\ ret' = validateInput(input')
  /\ fn' = "validateInput"
  /\ invoked' = <<"validateInput">>
  /\ pc' = "returned"
  /\ UNCHANGED page

\* A caller requests a target calculation.
CalculateTarget ==
  /\ pc = "idle"
  /\ \E lat \in LatValues, lon \in LonValues, azimuth \in AzimuthValues,
        distance \in DistanceValues :
       /\ input' = [observerLat |-> lat, observerLon |-> lon,
                    azimuth |-> azimuth, distance |-> distance]
       /\ \E r \in {calculateTarget(input')} :
            ret' = r.ret /\ invoked' = r.invoked
  /\ fn' = "calculateTarget"
  /\ pc' = "returned"
  /\ UNCHANGED page

\* A caller measures the distance between two points.
CalculateDistance ==
  /\ pc = "idle"
  /\ \E lat1 \in PointLats, lon1 \in PointLons, lat2 \in PointLats,
        lon2 \in PointLons :
       /\ input' = [lat1 |-> lat1, lon1 |-> lon1, lat2 |-> lat2,
                    lon2 |-> lon2]
       /\ ret' = calculateDistance(lat1, lon1, lat2, lon2)
  /\ fn' = "calculateDistance"
  /\ invoked' = <<"calculateDistance">>
  /\ pc' = "returned"
  /\ UNCHANGED page

\* A caller asks for the bearing from one point to another.
CalculateBearing ==
  /\ pc = "idle"
  /\ \E lat1 \in PointLats, lon1 \in PointLons, lat2 \in PointLats,
        lon2 \in PointLonsNear :
       /\ input' = [lat1 |-> lat1, lon1 |-> lon1, lat2 |-> lat2,
                    lon2 |-> lon2]
       /\ ret' = calculateBearing(lat1, lon1, lat2, lon2)
  /\ fn' = "calculateBearing"
  /\ invoked' = <<"calculateBearing">>
  /\ pc' = "returned"
  /\ UNCHANGED page

\* A caller converts a DMS triple to decimal degrees.
DmsToDecimal ==
  /\ pc = "idle"
  /\ \E degrees \in DmsDegrees, minutes \in DmsMinutes,
        seconds \in DmsSeconds :
       /\ input' = [degrees |-> degrees, minutes |-> minutes,
                    seconds |-> seconds]
       /\ ret' = dmsToDecimal(degrees, minutes, seconds)
  /\ fn' = "dmsToDecimal"
  /\ invoked' = <<"dmsToDecimal">>
  /\ pc' = "returned"
  /\ UNCHANGED page

\* A caller converts decimal degrees to a DMS triple.
DecimalToDMS ==
  /\ pc = "idle"
  /\ \E decimal \in DecimalValues :
       /\ input' = [decimal |-> decimal]
       /\ ret' = decimalToDMS(decimal)
  /\ fn' = "decimalToDMS"
  /\ invoked' = <<"decimalToDMS">>
  /\ pc' = "returned"
  /\ UNCHANGED page

\* A caller validates a DMS triple for an axis.
ValidateDMS ==
  /\ pc = "idle"
  /\ \E degrees \in CheckedDegrees, minutes \in CheckedMinutes,
        seconds \in CheckedSeconds, type \in AxisTypes :
       /\ input' = [degrees |-> degrees, minutes |-> minutes,
                    seconds |-> seconds, type |-> type]
       /\ ret' = validateDMS(degrees, minutes, seconds, type)
  /\ fn' = "validateDMS"
  /\ invoked' = <<"validateDMS">>
  /\ pc' = "returned"
  /\ UNCHANGED page

\* A caller formats a distance.
FormatDistance ==
  /\ pc = "idle"
  /\ \E distanceKm \in FormattedDistances :
       /\ input' = [distanceKm |-> distanceKm]
       /\ ret' = formatDistance(distanceKm)
  /\ fn' = "formatDistance"
  /\ invoked' = <<"formatDistance">>
  /\ pc' = "returned"
  /\ UNCHANGED page

\* A caller formats an azimuth.
FormatAzimuth ==
  /\ pc = "idle"
  /\ \E azimuth \in FormattedAzimuths :
       /\ input' = [azimuth |-> azimuth]
       /\ ret' = formatAzimuth(azimuth)
  /\ fn' = "formatAzimuth"
  /\ invoked' = <<"formatAzimuth">>
  /\ pc' = "returned"
  /\ UNCHANGED page

\* A caller computes a target directly.
CalculateTargetCoordinate ==
  /\ pc = "idle"
  /\ \E lat \in StartLats, lon \in StartLons, azimuthDeg \in StartAzimuths,
        distanceKm \in StartDistances :
       /\ input' = [lat |-> lat, lon |-> lon, azimuthDeg |-> azimuthDeg,
                    distanceKm |-> distanceKm]
       /\ ret' = calculateTargetCoordinate(lat, lon, azimuthDeg, distanceKm)
  /\ fn' = "calculateTargetCoordinate"
  /\ invoked' = <<"calculateTargetCoordinate">>
  /\ pc' = "returned"
  /\ UNCHANGED page

\* The user clicks the mode switch.
HandleModeToggle ==
  /\ pc = "idle"
  /\ \E dom \in DecimalPages \cup DMSPages :
       /\ input' = dom
       /\ ret' = handleModeToggle(dom)
  /\ fn' = "handleModeToggle"
  /\ invoked' = IF input'.mode = "decimal" THEN <<"decimalToDMS">>
                ELSE <<"dmsToDecimal">>
  /\ pc' = "returned"
  /\ UNCHANGED page

\* The caller has consumed the result.
Return ==
  /\ pc = "returned"
  /\ pc' = "idle"
  /\ fn' = "none"
  /\ input' = <<>>
  /\ ret' = <<>>
  /\ invoked' = <<>>
  /\ UNCHANGED page

Next ==
  \/ ValidateInput \/ CalculateTarget \/ CalculateDistance
  \/ CalculateBearing \/ DmsToDecimal \/ DecimalToDMS
  \/ HandleModeToggle \/ ValidateDMS
  \/ FormatDistance \/ FormatAzimuth
  \/ CalculateTargetCoordinate
  \/ Return

Spec == Init /\ [][Next]_vars

(***************************************************************************)
(* The page in use: the user's clicks and typing, and the callbacks of the *)
(* clipboard and of the timers, in any order. fn is the handler that ran   *)
(* last and input its argument.                                            *)
(***************************************************************************)

\* The handler named f has run on the page.
Handled(f, argument) ==
  /\ fn' = f
  /\ input' = argument
  /\ UNCHANGED <<pc, ret, invoked>>

TypeForm ==
  /\ \E form \in Forms : page' = typeForm(page, form)
  /\ Handled("input", <<>>)

ToggleMode ==
  /\ page' = handleModeToggle(page)
  /\ Handled("handleModeToggle", <<>>)

Calculate ==
  /\ page' = handleCalculate(page)
  /\ Handled("handleCalculate", <<>>)

\* Ctrl+C with the result displayed, or a click on the copy button of the
\* result section.
Copy ==
  /\ page.resultSection = "block"
  /\ page.writes + Len(page.timers) < MaxPending
  /\ page' = handleCopyCoordinates(page)
  /\ Handled("handleCopyCoordinates", <<>>)

\* The clipboard accepts a write.
WriteResolved ==
  /\ page.writes > 0
  /\ page' = writeResolved(page)
  /\ Handled("writeResolved", <<>>)

\* The clipboard refuses a write.
WriteRejected ==
  /\ page.writes > 0
  /\ page' = writeRejected(page)
  /\ Handled("writeRejected", <<>>)

\* Two seconds after a copy: the first timer fires.
ResetCopyButton ==
  /\ page.timers # <<>>
  /\ page' = resetCopyButton(page)
  /\ Handled("resetCopyButton", <<>>)

LoadTestCase ==
  \E testCase \in LoadedTestCases :
    /\ page' = loadTestCase(page, testCase)
    /\ Handled("loadTestCase", testCase)

\* The form and the map: typing, the mode switch, calculations and test
\* cases.
PageNext == TypeForm \/ ToggleMode \/ Calculate \/ LoadTestCase

PageSpec == Init /\ [][PageNext]_vars

\* The result section and its copy button: typing, the mode switch,
\* calculations, copies and their callbacks.
CopyNext ==
  \/ TypeForm \/ ToggleMode \/ Calculate
  \/ Copy \/ WriteResolved \/ WriteRejected \/ ResetCopyButton

CopySpec == Init /\ [][CopyNext]_vars

(***************************************************************************)
(* Properties.                                                             *)
(***************************************************************************)

\* The function f has returned to its caller.
Returned(f) == pc = "returned" /\ fn = f

\* The four fields of a validation or calculation request.
ReqLat == IF fn = "calculateTarget" THEN input.observerLat ELSE input.lat
ReqLon == IF fn = "calculateTarget" THEN input.observerLon ELSE input.lon
ReqAzimuth == input.azimuth
ReqDistance == input.distance

LatOut == Lt(ReqLat, Num(-90)) \/ Gt(ReqLat, Num(90))
LonOut == Lt(ReqLon, Num(-180)) \/ Gt(ReqLon, Num(180))
AzimuthOut == Lt(ReqAzimuth, Num(0)) \/ Gt(ReqAzimuth, Num(360))
DistanceNotPositive == Le(ReqDistance, Num(0))
LatIn == Le(Num(-90), ReqLat) /\ Le(ReqLat, Num(90))
LonIn == Le(Num(-180), ReqLon) /\ Le(ReqLon, Num(180))
AzimuthIn == Le(Num(0), ReqAzimuth) /\ Le(ReqAzimuth, Num(360))
HasNaN ==
  IsNaN(ReqLat) \/ IsNaN(ReqLon) \/ IsNaN(ReqAzimuth) \/ IsNaN(ReqDistance)
Accepted ==
  /\ LatIn /\ LonIn /\ AzimuthIn
  /\ Lt(Num(0), ReqDistance) /\ Le(ReqDistance, Num(100))
  /\ ~HasNaN
Diagnostics == {MsgLat, MsgLon, MsgAzimuth, MsgDistance, MsgWarning, MsgNaN}
HardDiagnostics == {MsgLat, MsgLon, MsgAzimuth, MsgDistance, MsgNaN}

\* C1: a request that is valid except for a distance above 100 km still
\* gets a successful result carrying a target; the warning is not a failure.
C1_WarningIsNonFatal ==
  (Returned("calculateTarget") /\ LatIn /\ LonIn /\ AzimuthIn
     /\ Gt(ReqDistance, Num(100)))
    => (ret.success /\ "data" \in DOMAIN ret)

\* C2: validateInput returns the diagnostic of the first failing check in
\* the order latitude, longitude, bearing, distance <= 0, whatever later
\* fields are out of range as well.
C2_FirstFailingCheckWins ==
  Returned("validateInput")
    => /\ LatOut => ret = MsgLat
       /\ (~LatOut /\ LonOut) => ret = MsgLon
       /\ (~LatOut /\ ~LonOut /\ AzimuthOut) => ret = MsgAzimuth
       /\ (~LatOut /\ ~LonOut /\ ~AzimuthOut /\ DistanceNotPositive)
            => ret = MsgDistance

\* C2 witness: all four fields fail at once and the latitude diagnostic is
\* the one returned.
C2_AllOutLatitudeReported ==
  /\ Returned("validateInput")
  /\ LatOut /\ LonOut /\ AzimuthOut /\ DistanceNotPositive
  /\ ret = MsgLat

\* C3: when the validation reports a hard failure, calculateTarget returns
\* exactly {success: false, error: that diagnostic}, with no data field, and
\* has invoked nothing but validateInput.
C3_HardFailureReturnsAtOnce ==
  (Returned("calculateTarget") /\ validationOf(input) \in HardDiagnostics)
    => /\ ret = [success |-> FALSE, error |-> validationOf(input)]
       /\ invoked = <<"validateInput">>

\* C3 witness: a request with an out-of-range bearing has been refused.
C3_BearingRefused ==
  /\ Returned("calculateTarget")
  /\ LatIn /\ LonIn /\ AzimuthOut
  /\ ret = [success |-> FALSE, error |-> MsgAzimuth]

\* C4: validateInput returns '' exactly when every field is inside its
\* inclusive range, 0 < distance <= 100 and no field is NaN; otherwise it
\* returns one of its non-empty diagnostics.
C4_ValidExactlyWhenInRange ==
  Returned("validateInput")
    => /\ ret = "" <=> Accepted
       /\ ~Accepted => (ret \in Diagnostics /\ ret # "")

\* C4 witness: the request on every inclusive bound is valid.
C4_BoundsAccepted ==
  /\ Returned("validateInput")
  /\ ReqLat = Num(90) /\ ReqLon = Num(-180) /\ ReqAzimuth = Num(360)
  /\ ReqDistance = Num(100)
  /\ ret = ""

\* C5: a NaN in any field fails the validation whatever the other fields
\* are: validateInput returns a non-empty diagnostic and calculateTarget
\* returns success: false.
C5_NaNFieldFails ==
  /\ (Returned("validateInput") /\ HasNaN) => ret # ""
  /\ (Returned("calculateTarget") /\ HasNaN) => ~ret.success

\* C5 witness: the only defect of the request is a NaN, which no range
\* comparison catches, and the last check reports it.
C5_OnlyNaNReported ==
  /\ Returned("validateInput")
  /\ IsNaN(ReqLat) /\ LonIn /\ AzimuthIn
  /\ Lt(Num(0), ReqDistance) /\ Le(ReqDistance, Num(100))
  /\ ret = MsgNaN

\* C6: for four numbers of any kind calculateTarget returns either
\* {success: true, data} or {success: false, error} with a non-empty error,
\* never both fields and never neither.
C6_SuccessXorError ==
  Returned("calculateTarget")
    => \/ ret.success /\ DOMAIN ret = {"success", "data"}
       \/ ~ret.success /\ DOMAIN ret = {"success", "error"} /\ ret.error # ""

\* C6 witness: requests with an infinite field and requests with a NaN
\* field have been answered, here one with an infinite distance.
C6_InfiniteDistanceAnswered ==
  /\ Returned("calculateTarget")
  /\ LatIn /\ LonIn /\ AzimuthIn /\ ReqDistance = PosInf
  /\ ~ret.success

\* C7: the target of every successful result has a numeric latitude in
\* [-90, 90] and a numeric longitude in [-180, 180].
C7_TargetInRange ==
  (Returned("calculateTarget") /\ ret.success)
    => /\ Le(Num(-90), ret.data.target.lat)
       /\ Le(ret.data.target.lat, Num(90))
       /\ Le(Num(-180), ret.data.target.lon)
       /\ Le(ret.data.target.lon, Num(180))

\* The round-trip tolerances the model can resolve: its numbers carry
\* PrecBits bits, so the recomputed distance and bearing of a sound result
\* differ from the inputs by rounding alone, far less than half a kilometre
\* and, from one kilometre on, less than one degree.
DistanceTolerance == Frac(1, 2)
BearingTolerance == Num(1)

\* C8: the distance from the observer to the computed target equals the
\* input distance within the tolerance: verification.distanceError of every
\* successful result is a number below it.
C8_DistanceRoundTrip ==
  (Returned("calculateTarget") /\ ret.success)
    => Lt(ret.data.verification.distanceError, DistanceTolerance)

\* C9: the bearing from the observer to the computed target equals the
\* input bearing within the tolerance, bearings 0 and 360 included:
\* verification.bearingError of every successful result is a number below
\* it (observers off the poles, distances of a kilometre or more).
C9_BearingRoundTrip ==
  (Returned("calculateTarget") /\ ret.success
     /\ Lt(MathAbs(ReqLat), Num(90)) /\ Le(Num(1), ReqDistance))
    => Lt(ret.data.verification.bearingError, BearingTolerance)

\* C10: calculateDistance(A, B) = calculateDistance(B, A) for all points A
\* and B, and calculateDistance(A, A) is exactly 0.
C10_DistanceSymmetricZeroOnSame ==
  Returned("calculateDistance")
    => /\ ret = calculateDistance(input.lat2, input.lon2,
                                  input.lat1, input.lon1)
       /\ (input.lat1 = input.lat2 /\ input.lon1 = input.lon2) => ret = Zero

\* C10 witness: a positive distance between two points of different
\* latitude and longitude has been returned.
C10_DistinctPointsMeasured ==
  /\ Returned("calculateDistance")
  /\ input.lat1 # input.lat2 /\ input.lon1 # input.lon2
  /\ Lt(Zero, ret)

\* C11: for points with latitudes in [-90, 90] and longitudes in
\* [-180, 180], calculateBearing returns b with 0 <= b < 360.
C11_BearingInRange ==
  Returned("calculateBearing") => (Le(Zero, ret) /\ Lt(ret, Num(360)))

\* C11 witness: a bearing in the western half circle, where atan2 is
\* negative, has been returned.
C11_WestwardBearing ==
  Returned("calculateBearing") /\ Lt(Num(180), ret)

\* Tolerance on seconds in the round trip, wider than the 0.01 of two
\* decimals to leave room for the rounding of the modelled numbers.
SecondsTolerance == Frac(1, 20)

\* C12: for whole degrees d, whole minutes m in [0, 60) and seconds s in
\* [0, 60), decimalToDMS(dmsToDecimal(d, m, s)) has degrees d, minutes m and
\* seconds within the tolerance of s.
C12_DmsRoundTrip ==
  Returned("dmsToDecimal")
    => /\ decimalToDMS(ret).degrees = input.degrees
       /\ decimalToDMS(ret).minutes = input.minutes
       /\ Le(MathAbs(Sub(decimalToDMS(ret).seconds, input.seconds)),
             SecondsTolerance)

\* C13: decimalToDMS returns whole minutes with 0 <= minutes < 60 and
\* seconds with 0 <= seconds < 60; seconds that round to 60.00 are carried.
C13_DmsWellFormed ==
  Returned("decimalToDMS")
    => /\ MathFloor(ret.minutes) = ret.minutes
       /\ Le(Zero, ret.minutes) /\ Lt(ret.minutes, Num(60))
       /\ Le(Zero, ret.seconds) /\ Lt(ret.seconds, Num(60))

\* Tolerance on decimal degrees in the round trip, wider than that of two
\* decimals of a second.
DegreesTolerance == Frac(1, 1000)

\* C14: for a decimal coordinate x in [-180, 180], dmsToDecimal of the
\* fields of decimalToDMS(x) is x within the tolerance, and switching the
\* page from decimal mode to DMS mode and back leaves both decimal inputs
\* at their values.
C14_DecimalRoundTrip ==
  /\ Returned("decimalToDMS")
       => Le(MathAbs(Sub(dmsToDecimal(ret.degrees, ret.minutes, ret.seconds),
                         input.decimal)),
             DegreesTolerance)
  /\ (Returned("handleModeToggle") /\ input.mode = "decimal")
       => /\ Le(MathAbs(Sub(handleModeToggle(ret).latDecimal,
                            input.latDecimal)),
                DegreesTolerance)
          /\ Le(MathAbs(Sub(handleModeToggle(ret).lonDecimal,
                            input.lonDecimal)),
                DegreesTolerance)

\* The magnitude |degrees| + minutes/60 + seconds/3600 of a DMS triple.
DmsMagnitude(dms) ==
  Add(Add(MathAbs(dms.degrees), Div(dms.minutes, Num(60))),
      Div(dms.seconds, Num(3600)))

Returned2500m ==
  /\ Returned("calculateTarget")
  /\ ret.success
  /\ input.distance = Frac(5, 2)

NorthLat ==
  Add(input.observerLat,
      Mul(Div(input.distance, EARTH_RADIUS_KM), RAD_TO_DEG))

\* Tolerance on the coordinates of a target due north, wider than 1e-6.
NorthTolerance == Frac(1, 1000)

\* C17: for every valid request with bearing 0 whose path does not reach
\* the north pole, at any observer longitude in [-180, 180], the target
\* longitude is the observer's within the tolerance and the target latitude
\* is the observer's plus distance/6371 radians in degrees.
C17_DueNorth ==
  (/\ Returned("calculateTarget")
   /\ ret.success
   /\ input.azimuth = Zero
   /\ Lt(NorthLat, Num(90)))
    => /\ Le(MathAbs(Sub(ret.data.target.lon, input.observerLon)),
             NorthTolerance)
       /\ Le(MathAbs(Sub(ret.data.target.lat, NorthLat)), NorthTolerance)

\* The checks of a DMS triple, as the contract lists them.
DmsHasNaN ==
  IsNaN(input.degrees) \/ IsNaN(input.minutes) \/ IsNaN(input.seconds)
DmsMinutesIn == Le(Zero, input.minutes) /\ Lt(input.minutes, Num(60))
DmsSecondsIn == Le(Zero, input.seconds) /\ Lt(input.seconds, Num(60))
DmsDegreesIn ==
  Le(MathAbs(input.degrees),
     IF input.type = "lat" THEN Num(90) ELSE Num(180))

\* C18: for axis 'lat' or 'lon', validateDMS returns the empty string
\* exactly when no component is NaN, 0 <= minutes < 60, 0 <= seconds < 60
\* and |degrees| <= 90 (lat) or 180 (lon); otherwise it returns the
\* diagnostic of the first failing check in the order NaN, minutes, seconds,
\* degrees.
C18_ValidateDMS ==
  (Returned("validateDMS") /\ input.type \in {"lat", "lon"})
    => ret = (IF DmsHasNaN THEN MsgDmsNaN
              ELSE IF ~DmsMinutesIn THEN MsgDmsMinutes
              ELSE IF ~DmsSecondsIn THEN MsgDmsSeconds
              ELSE IF ~DmsDegreesIn
                THEN (IF input.type = "lat" THEN MsgDmsLat ELSE MsgDmsLon)
              ELSE "")

\* A latitude triple failing the minutes, the seconds and the degrees check
\* has been answered with the minutes diagnostic.
C18_MinutesBeforeDegrees ==
  /\ Returned("validateDMS")
  /\ input.type = "lat"
  /\ ~DmsHasNaN /\ ~DmsMinutesIn /\ ~DmsSecondsIn /\ ~DmsDegreesIn
  /\ ret = MsgDmsMinutes

\* Half a unit of the last printed digit, with room for the rounding of the
\* comparison itself.
HalfMetre == Frac(501, 1000)
HalfHundredth == Frac(501, 100000)

\* C19: formatDistance renders every distance below 1 km in whole metres,
\* the rounding of distance*1000, with the unit m, and every distance of
\* 1 km or more in kilometres with two decimals, with the unit km; the unit
\* depends on the comparison distance < 1 alone.
C19_FormatDistance ==
  Returned("formatDistance")
    => /\ Lt(input.distanceKm, One)
            => /\ ret.unit = "m"
               /\ ret.number.digits = 0
               /\ Le(MathAbs(Sub(parseFloat(ret.number),
                                 Mul(input.distanceKm, Num(1000)))),
                     HalfMetre)
       /\ Le(One, input.distanceKm)
            => /\ ret.unit = "km"
               /\ ret.number.digits = 2
               /\ Le(MathAbs(Sub(parseFloat(ret.number), input.distanceKm)),
                     HalfHundredth)

\* A distance below 1 km that rounds to 1000 m has been rendered in metres,
\* and not as 1.00 km.
C19_ThousandMetres ==
  /\ Returned("formatDistance")
  /\ Lt(input.distanceKm, One)
  /\ ret.unit = "m"
  /\ ret.number.units = 1000

\* The compass: the k-th label belongs to the angle 45 * (k - 1).
Compass == <<"N", "NE", "E", "SE", "S", "SW", "W", "NW", "N">>
CompassDiff(k) == MathAbs(Sub(input.azimuth, Num(45 * (k - 1))))

\* C20: for every bearing in [0, 360], formatAzimuth labels it with the
\* direction whose angle among 0, 45, ..., 315, 360 is nearest to it; 0 and
\* 360 are both labelled N, and a bearing midway between two directions
\* gets the one with the smaller angle.
C20_NearestDirection ==
  (/\ Returned("formatAzimuth")
   /\ Le(Zero, input.azimuth) /\ Le(input.azimuth, Num(360)))
    => /\ \E k \in 1..9 :
            /\ ret.short = Compass[k]
            /\ \A j \in 1..9 :
                 \/ Lt(CompassDiff(k), CompassDiff(j))
                 \/ (CompassDiff(k) = CompassDiff(j) /\ k <= j)
       /\ input.azimuth \in {Zero, Num(360)} => ret.short = "N"

\* A bearing midway between two directions has been labelled with the one
\* at the smaller angle.
C20_MidwayLabelled ==
  /\ Returned("formatAzimuth")
  /\ input.azimuth = Frac(675, 2)
  /\ ret.short = "NW"

\* The angular distance of a direct call, in degrees.
AngularDegrees == Mul(Div(input.distanceKm, EARTH_RADIUS_KM), RAD_TO_DEG)

\* A direct call with arguments validateInput accepts has returned.
ValidDirectCall ==
  /\ Returned("calculateTargetCoordinate")
  /\ Le(LAT_MIN, input.lat) /\ Le(input.lat, LAT_MAX)
  /\ Le(LON_MIN, input.lon) /\ Le(input.lon, LON_MAX)
  /\ Lt(Zero, input.distanceKm) /\ Le(input.distanceKm, Num(100))

\* The longitude a equals the longitude b up to whole turns, within tol.
SameMeridian(a, b, tol) ==
  \/ Le(MathAbs(Sub(a, b)), tol)
  \/ Le(MathAbs(Sub(Add(a, Num(360)), b)), tol)
  \/ Le(MathAbs(Sub(Sub(a, Num(360)), b)), tol)

\* Tolerance on the coordinates of a target beyond a pole.
PoleTolerance == Frac(1, 100)

\* C21: a valid request with bearing 0 that crosses the north pole returns
\* the latitude 180 - (observer latitude + angular distance) and the
\* observer's longitude + 180 wrapped into [-180, 180]; symmetrically for
\* bearing 180 across the south pole.
C21_AcrossThePole ==
  /\ (/\ ValidDirectCall
      /\ input.azimuthDeg = Zero
      /\ Gt(Add(input.lat, AngularDegrees), Num(90)))
       => /\ Le(MathAbs(Sub(ret.lat,
                            Sub(Num(180), Add(input.lat, AngularDegrees)))),
                PoleTolerance)
          /\ Le(Num(-180), ret.lon) /\ Le(ret.lon, Num(180))
          /\ SameMeridian(ret.lon, Add(input.lon, Num(180)), PoleTolerance)
  /\ (/\ ValidDirectCall
      /\ input.azimuthDeg = Num(180)
      /\ Lt(Sub(input.lat, AngularDegrees), Num(-90)))
       => /\ Le(MathAbs(Sub(ret.lat,
                            Sub(Num(-180), Sub(input.lat, AngularDegrees)))),
                PoleTolerance)
          /\ Le(Num(-180), ret.lon) /\ Le(ret.lon, Num(180))
          /\ SameMeridian(ret.lon, Add(input.lon, Num(180)), PoleTolerance)

\* C22: for every finite starting longitude, inside or outside [-180, 180],
\* calculateTargetCoordinate returns a longitude within [-180, 180].
C22_LongitudeNormalized ==
  (Returned("calculateTargetCoordinate") /\ ~IsNaN(ret.lon))
    => (Le(Num(-180), ret.lon) /\ Le(ret.lon, Num(180)))

\* The decimal value of the DMS triple handed to validateDMS.
CheckedDecimal == dmsToDecimal(input.degrees, input.minutes, input.seconds)

\* C23: every DMS triple validateDMS accepts for an axis converts, through
\* dmsToDecimal, to a decimal value validateInput accepts for that axis.
C23_AcceptedTripleInRange ==
  /\ (Returned("validateDMS") /\ input.type = "lat" /\ ret = "")
       => validateInput([lat |-> CheckedDecimal, lon |-> Zero,
                         azimuth |-> Zero, distance |-> One]) = ""
  /\ (Returned("validateDMS") /\ input.type = "lon" /\ ret = "")
       => validateInput([lat |-> Zero, lon |-> CheckedDecimal,
                         azimuth |-> Zero, distance |-> One]) = ""

\* C24: after loadTestCase(tc), whatever the mode was before, the mode is
\* decimal, the decimal latitude and longitude inputs hold tc.observer.lat
\* and tc.observer.lon, and the azimuth and distance inputs hold tc.azimuth
\* and tc.distance.
C24_TestCaseLoaded ==
  fn = "loadTestCase"
    => /\ page.mode = "decimal"
       /\ page.latDecimal = input.observer.lat
       /\ page.lonDecimal = input.observer.lon
       /\ page.azimuth = input.azimuth
       /\ page.distance = input.distance

ResultShown == page.resultSection = "block"
ErrorShown == page.errorMessage = "flex"

\* C25 (as stated): in every state reachable by calculations, mode
\* switches, copies and their callbacks, the result section and the error
\* message are not displayed at the same time.
C25_NeverBothShown == ~(ResultShown /\ ErrorShown)

\* C25 (amended): right after handleCalculate exactly one of the result
\* section and the error message is displayed, and the two are displayed
\* together only with the message of a refused clipboard write.
C25_OneShownAfterCalculate ==
  /\ fn = "handleCalculate" => (ResultShown /\ ~ErrorShown)
                                 \/ (~ResultShown /\ ErrorShown)
  /\ (ResultShown /\ ErrorShown) => page.errorText = MsgCopy

\* A calculation has failed while a clipboard write of the previous result
\* was still pending.
C25_FailedWithWritePending ==
  /\ fn = "handleCalculate"
  /\ ErrorShown
  /\ page.writes > 0

\* C26: after any sequence of successful copies, once every clipboard write
\* has settled and every reset timer has fired, the copy button shows its
\* original label and styles.
C26_CopyButtonRestored ==
  (page.writes = 0 /\ page.timers = <<>>)
    => page.copyBtn = [innerHTML |-> CopyLabel, styled |-> FALSE]

TargetMarkerOf(p) == p.targetMarkers[Len(p.targetMarkers)]
BearingLineOf(p) == p.lines[Len(p.lines)]

\* C27: after any sequence of calculations the map holds at most one target
\* marker and at most one bearing line, and a bearing line that exists joins
\* the current positions of the observer marker and of the target marker.
C27_MapConsistent ==
  /\ Len(page.targetMarkers) <= 1
  /\ Len(page.lines) <= 1
  /\ page.lines # <<>> =>
       /\ page.targetMarkers # <<>>
       /\ BearingLineOf(page).from = page.observerMarker
       /\ BearingLineOf(page).to = TargetMarkerOf(page)

\* A step of handleCalculate whose calculation failed: the handler hid the
\* old error message, so the one displayed after it is its own.
CalculateFailed == fn' = "handleCalculate" /\ page'.errorMessage = "flex"

\* C28: a handleCalculate whose calculation fails leaves the observer
\* marker, the target marker and the bearing line as they were; of the page
\* it changes only the result section, which it hides, and the error
\* message, which it shows.
C28_FailedCalculateFrame ==
  [][CalculateFailed =>
       /\ page'.observerMarker = page.observerMarker
       /\ page'.targetMarkers = page.targetMarkers
       /\ page'.lines = page.lines
       /\ page' = [page EXCEPT !.resultSection = "none",
                               !.errorMessage = "flex",
                               !.errorText = page'.errorText]]_vars

C28_FailedWithLineDrawn ==
  /\ fn = "handleCalculate"
  /\ ErrorShown
  /\ ~ResultShown
  /\ page.lines # <<>>
  /\ page.observerMarker # [lat |-> page.latDecimal, lon |-> page.lonDecimal]
====
